---- MODULE Spec2Model ----
(***************************************************************************)
(* Model of main.py: the four loaders DemandLoader, CapacityLoader,         *)
(* TranstimeLoader and DowntimeLoader, the FileInput model they construct,  *)
(* and the Python objects (dicts and sets) the loaders build.               *)
(*                                                                          *)
(* Python objects live in `heap`; a reference is an index into it, so that  *)
(* two names bound to the same dict are visibly the same object.            *)
(***************************************************************************)
EXTENDS Integers, Sequences, FiniteSets, TLC

VARIABLES insts, pc, file_path, df, idx, tbl, heap

vars == <<insts, pc, file_path, df, idx, tbl, heap>>

-----------------------------------------------------------------------------
(* Bounds of the model *)

\* longest file (number of data rows) a parser returns under Spec
MaxRows == 3
\* number of loader instances the caller constructs under SpecIso
MaxInst == 2
\* longest file a parser returns under SpecIso
MaxRowsIso == 2

-----------------------------------------------------------------------------
(* Cell values of the input files *)

\* the values a cell of each column takes (two per column)
ColumnValues(c) ==
  CASE c = "product_id" -> <<"product_1", "product_2">>
    [] c = "week_id" -> <<"week_1", "week_2">>
    [] c = "machine_id" -> <<"machine_1", "machine_2">>
    [] c = "machine_Id" -> <<"machine_1", "machine_2">>
    [] c = "from" -> <<"product_1", "product_2">>
    [] c = "to" -> <<"product_2", "product_1">>
    [] c = "demand" -> <<10, 20>>
    [] c = "week_cap" -> <<100, 50>>
    [] c = "trans_time_days" -> <<1, 2>>

Kinds == {"Demand", "Capacity", "Transtime", "Downtime"}

\* columns each loader reads from a row, in the order it reads them
Columns(kind) ==
  CASE kind = "Demand" -> <<"product_id", "week_id", "demand">>
    [] kind = "Capacity" -> <<"machine_id", "product_id", "week_cap">>
    [] kind = "Transtime" -> <<"machine_Id", "from", "to", "trans_time_days">>
    [] kind = "Downtime" -> <<"machine_Id", "week_id">>

Range(s) == {s[i] : i \in DOMAIN s}

Required(kind) == Range(Columns(kind))

\* the header of a file written with the other casing of the machine column
OtherCasing(cols) ==
  {IF c = "machine_id" THEN "machine_Id"
   ELSE IF c = "machine_Id" THEN "machine_id" ELSE c : c \in cols}

\* headers a parsed file of a loader may carry: the required columns, the
\* required columns less one, and the other casing of the machine column
ColumnSets(kind) ==
  {Required(kind)} \cup {Required(kind) \ {c} : c \in Required(kind)}
    \cup {OtherCasing(Required(kind))}

\* rows over a header; a transition row goes from a product to another one
Rows(cols) ==
  {r \in {[c \in cols |-> ColumnValues(c)[b[c]]] : b \in [cols -> 1..2]} :
     {"from", "to"} \subseteq cols => r["from"] # r["to"]}

\* the column whose cells vary in the small files of SpecIso
IsoVarying(kind) ==
  CASE kind = "Demand" -> "demand"
    [] kind = "Capacity" -> "week_cap"
    [] kind = "Transtime" -> "trans_time_days"
    [] kind = "Downtime" -> "machine_Id"

IsoRows(kind) ==
  {r \in Rows(Required(kind)) :
     \A c \in Required(kind) \ {IsoVarying(kind)} : r[c] = ColumnValues(c)[1]}

-----------------------------------------------------------------------------
(* Paths: pathlib.Path reduced to a stem and a suffix; the suffix is a     *)
(* sequence of characters so that lower() is computed, not assumed.         *)

Csv == <<".", "c", "s", "v">>
Xlsx == <<".", "x", "l", "s", "x">>
Suffixes == { Csv, <<".", "C", "S", "V">>, Xlsx, <<".", "t", "x", "t">> }

Paths == [stem : {"input", "missing"}, suffix : Suffixes]

\* Path.exists(): the files present on disk
exists(p) == p.stem = "input"

LowerChar(c) ==
  CASE c = "C" -> "c"
    [] c = "S" -> "s"
    [] c = "V" -> "v"
    [] c = "X" -> "x"
    [] c = "L" -> "l"
    [] c = "T" -> "t"
    [] OTHER -> c

\* str.lower()
lower(s) == [i \in DOMAIN s |-> LowerChar(s[i])]

\* FileInput.validate_file_path: the error it raises, or "ok" when it
\* returns the path
validate_file_path(value) ==
  IF ~exists(value) THEN "ValidationError"
  ELSE IF lower(value.suffix) \notin {Csv, Xlsx} THEN "ValidationError"
  ELSE "ok"

\* FileInput(file_path=...).file_path: the model declares one field and no
\* validator is registered on it, so construction returns the path as given
FileInput(p) == p

-----------------------------------------------------------------------------
(* Python objects *)

EmptyFcn == [x \in {} |-> 0]

\* {}
EmptyDict == [type |-> "dict", val |-> EmptyFcn]

\* d[k] = v
Put(f, k, v) == [x \in DOMAIN f \cup {k} |-> IF x = k THEN v ELSE f[x]]

\* the heap with object `ref` replaced
Store(h, ref, obj) == [i \in DOMAIN h |-> IF i = ref THEN obj ELSE h[i]]

\* the reference of the dict a load routine creates for its result
NewTableShared(h, is, kind) ==
  IF \E i \in DOMAIN is : is[i].kind = kind /\ is[i].attr # 0
  THEN is[CHOOSE i \in DOMAIN is : is[i].kind = kind /\ is[i].attr # 0].attr
  ELSE Len(h) + 1

NewTable(h, is, kind) == Len(h) + 1

\* the objects a table reaches: itself and its inner dicts or sets
Reach(h, t) == {t} \cup Range(h[t].val)

\* a table by value: outer key -> contents of the inner dict or set
View(h, t) == [k \in DOMAIN h[t].val |-> h[h[t].val[k]].val]

-----------------------------------------------------------------------------
(* The loop bodies of the four load routines, on the heap *)

\* the same loop body with the policy of the transition loader
DemandFoldFirstWins(h, t, row) ==
  LET p == row["product_id"]
      w == row["week_id"]
      d == row["demand"]
  IN IF p \in DOMAIN h[t].val
     THEN LET inner == h[t].val[p]
          IN IF w \in DOMAIN h[inner].val THEN h
             ELSE Store(h, inner, [type |-> "dict", val |-> Put(h[inner].val, w, d)])
     ELSE Append(Store(h, t, [type |-> "dict", val |-> Put(h[t].val, p, Len(h) + 1)]),
                 [type |-> "dict", val |-> Put(EmptyFcn, w, d)])

\* demand_data.setdefault(product_id, {})[week_id] = demand
DemandFold(h, t, row) ==
  LET p == row["product_id"]
      w == row["week_id"]
      d == row["demand"]
  IN IF p \in DOMAIN h[t].val
     THEN LET inner == h[t].val[p]
          IN Store(h, inner, [type |-> "dict", val |-> Put(h[inner].val, w, d)])
     ELSE Append(Store(h, t, [type |-> "dict", val |-> Put(h[t].val, p, Len(h) + 1)]),
                 [type |-> "dict", val |-> Put(EmptyFcn, w, d)])

CapacityFoldFirstWins(h, t, row) ==
  LET m == row["machine_id"]
      p == row["product_id"]
      c == row["week_cap"]
  IN IF m \in DOMAIN h[t].val
     THEN LET inner == h[t].val[m]
          IN IF p \in DOMAIN h[inner].val THEN h
             ELSE Store(h, inner, [type |-> "dict", val |-> Put(h[inner].val, p, c)])
     ELSE Append(Store(h, t, [type |-> "dict", val |-> Put(h[t].val, m, Len(h) + 1)]),
                 [type |-> "dict", val |-> Put(EmptyFcn, p, c)])

\* capacity_data.setdefault(machine_id, {})[product_id] = week_cap
CapacityFold(h, t, row) ==
  LET m == row["machine_id"]
      p == row["product_id"]
      c == row["week_cap"]
  IN IF m \in DOMAIN h[t].val
     THEN LET inner == h[t].val[m]
          IN Store(h, inner, [type |-> "dict", val |-> Put(h[inner].val, p, c)])
     ELSE Append(Store(h, t, [type |-> "dict", val |-> Put(h[t].val, m, Len(h) + 1)]),
                 [type |-> "dict", val |-> Put(EmptyFcn, p, c)])

\* the same loop body with the policy of the demand and capacity loaders
TranstimeFoldLastWins(h, t, row) ==
  LET m == row["machine_Id"]
      key == <<row["from"], row["to"]>>
      d == row["trans_time_days"]
      h1 == IF m \notin DOMAIN h[t].val
            THEN Append(Store(h, t, [type |-> "dict", val |-> Put(h[t].val, m, Len(h) + 1)]),
                        EmptyDict)
            ELSE h
      inner == h1[t].val[m]
  IN Store(h1, inner, [type |-> "dict", val |-> Put(h1[inner].val, key, d)])

\* if machine_id not in transition_times: transition_times[machine_id] = {}
\* transition_times[machine_id].setdefault((from_product, to_product), trans_time_days)
TranstimeFold(h, t, row) ==
  LET m == row["machine_Id"]
      key == <<row["from"], row["to"]>>
      d == row["trans_time_days"]
      h1 == IF m \notin DOMAIN h[t].val
            THEN Append(Store(h, t, [type |-> "dict", val |-> Put(h[t].val, m, Len(h) + 1)]),
                        EmptyDict)
            ELSE h
      inner == h1[t].val[m]
  IN IF key \in DOMAIN h1[inner].val THEN h1
     ELSE Store(h1, inner, [type |-> "dict", val |-> Put(h1[inner].val, key, d)])

\* the loop body with downtime_data[week_id] = {machine_id}
DowntimeFoldOverwrite(h, t, row) ==
  LET m == row["machine_Id"]
      w == row["week_id"]
  IN IF w \in DOMAIN h[t].val
     THEN Store(h, h[t].val[w], [type |-> "set", val |-> {m}])
     ELSE Append(Store(h, t, [type |-> "dict", val |-> Put(h[t].val, w, Len(h) + 1)]),
                 [type |-> "set", val |-> {m}])

\* downtime_data.setdefault(week_id, set()).add(machine_id)
DowntimeFold(h, t, row) ==
  LET m == row["machine_Id"]
      w == row["week_id"]
  IN IF w \in DOMAIN h[t].val
     THEN LET inner == h[t].val[w]
          IN Store(h, inner, [type |-> "set", val |-> h[inner].val \cup {m}])
     ELSE Append(Store(h, t, [type |-> "dict", val |-> Put(h[t].val, w, Len(h) + 1)]),
                 [type |-> "set", val |-> {m}])

Fold(kind, h, t, row) ==
  CASE kind = "Demand" -> DemandFold(h, t, row)
    [] kind = "Capacity" -> CapacityFold(h, t, row)
    [] kind = "Transtime" -> TranstimeFold(h, t, row)
    [] kind = "Downtime" -> DowntimeFold(h, t, row)

\* row[c] raises KeyError for a label the row does not carry
MissingColumn(kind, row) == \E c \in Required(kind) : c \notin DOMAIN row

\* a loop body that stores into the table before it reads the last column
RowResultStoreFirst(kind, h, t, row) ==
  LET first == Columns(kind)[1]
  IN IF first \notin DOMAIN row
     THEN [heap |-> h, error |-> "KeyError"]
     ELSE IF MissingColumn(kind, row)
     THEN [heap |-> Store(h, t, [type |-> "dict", val |-> Put(h[t].val, row[first], 0)]),
           error |-> "KeyError"]
     ELSE [heap |-> Fold(kind, h, t, row), error |-> "none"]

\* one pass of a loop body: every column is read before the table is touched
RowResult(kind, h, t, row) ==
  IF MissingColumn(kind, row)
  THEN [heap |-> h, error |-> "KeyError"]
  ELSE [heap |-> Fold(kind, h, t, row), error |-> "none"]

\* the heap after folding rows[i..] into table t
RECURSIVE FoldFrom(_, _, _, _, _)
FoldFrom(kind, h, t, rows, i) ==
  IF i > Len(rows) THEN h
  ELSE FoldFrom(kind, Fold(kind, h, t, rows[i]), t, rows, i + 1)

\* the table a load routine returns for a row sequence, by value
Load(kind, rows) == View(FoldFrom(kind, <<EmptyDict>>, 1, rows, 1), 1)

-----------------------------------------------------------------------------
(* State *)

\* insts     the loader objects constructed so far, in order; attr is the
\*           reference held by the result attribute (demand_data, ...), 0
\*           while the attribute does not exist
\* pc        position of the construction in progress, "idle" when none is
\* file_path validated_file_path, the argument of the load routine
\* df, idx   the parsed frame and the row the loop is at (0: nothing parsed)
\* tbl       the local dict of the load routine
\* heap      the Python objects

NoFrame == [cols |-> {}, rows |-> <<>>]

NoPath == [stem |-> "", suffix |-> <<>>]

Init ==
  /\ insts = <<>>
  /\ pc = "idle"
  /\ file_path = NoPath
  /\ df = NoFrame
  /\ idx = 0
  /\ tbl = 0
  /\ heap = <<>>

Cur == insts[Len(insts)]

Max(S) == CHOOSE x \in S : \A y \in S : y <= x

\* the objects some result attribute reaches
Live == UNION {Reach(heap, insts[i].attr) : i \in {j \in DOMAIN insts : insts[j].attr # 0}}

\* an exception that leaves __init__ and also binds the result attribute
RaiseKeepPartial(err) ==
  /\ insts' = [insts EXCEPT ![Len(insts)].state = "failed",
                             ![Len(insts)].error = err,
                             ![Len(insts)].attr = tbl]
  /\ pc' = "idle"

\* an exception leaves the load routine and __init__: the assignment of the
\* result attribute is never reached
Raise(err) ==
  /\ insts' = [insts EXCEPT ![Len(insts)].state = "failed",
                             ![Len(insts)].error = err]
  /\ pc' = "idle"

\* DemandLoader(file_path=p), ...: __init__ up to the call of the load routine
Construct(kind, p, limit) ==
  /\ pc = "idle"
  /\ Len(insts) < limit
  /\ insts' = Append(insts, [kind |-> kind, state |-> "constructing",
                              attr |-> 0, error |-> "none"])
  /\ file_path' = FileInput(p)
  /\ pc' = "load"
  /\ df' = NoFrame
  /\ idx' = 0
  /\ tbl' = 0
  \* the locals of the previous call are gone
  /\ heap' = SubSeq(heap, 1, Max(Live \cup {0}))

\* the branch on the suffix that opens each load routine
Parser(kind, p) ==
  IF lower(p.suffix) = Csv THEN "read_csv"
  ELSE IF kind \in {"Demand", "Capacity"} THEN "read_excel"
  ELSE IF lower(p.suffix) = Xlsx THEN "read_excel"
  ELSE "raise"

\* load_*: the result dict is created and the parser is chosen
LoadBegin ==
  /\ pc = "load"
  /\ LET t == NewTable(heap, insts, Cur.kind)
     IN /\ tbl' = t
        /\ heap' = IF t > Len(heap) THEN Append(heap, EmptyDict) ELSE heap
  /\ IF Parser(Cur.kind, file_path) = "raise"
     THEN Raise("FormatError")
     ELSE /\ pc' = Parser(Cur.kind, file_path)
          /\ UNCHANGED insts
  /\ UNCHANGED <<file_path, df, idx>>

\* what a parser does with a path: FileNotFoundError when nothing is there,
\* otherwise the content decides: unreadable, or a frame of rows
Read(parser, n, iso) ==
  /\ pc = parser
  /\ \/ /\ ~exists(file_path)
        /\ Raise("FileNotFoundError")
        /\ UNCHANGED <<df, idx>>
     \/ /\ exists(file_path)
        /\ Raise("ParseError")
        /\ UNCHANGED <<df, idx>>
     \/ /\ exists(file_path)
        /\ \E cols \in (IF iso THEN {Required(Cur.kind)} ELSE ColumnSets(Cur.kind)) :
             \E k \in 0..n :
               \E rows \in [1..k -> (IF iso THEN IsoRows(Cur.kind) ELSE Rows(cols))] :
                 df' = [cols |-> cols, rows |-> rows]
        /\ idx' = 1
        /\ pc' = "loop"
        /\ UNCHANGED insts
  /\ UNCHANGED <<file_path, tbl, heap>>

\* pd.read_csv(file_path)
read_csv(n, iso) == Read("read_csv", n, iso)

\* pd.read_excel(file_path)
read_excel(n, iso) == Read("read_excel", n, iso)

\* one iteration of `for _, row in df.iterrows()`
LoopRow ==
  /\ pc = "loop"
  /\ idx <= Len(df.rows)
  /\ LET res == RowResult(Cur.kind, heap, tbl, df.rows[idx])
     IN /\ heap' = res.heap
        /\ IF res.error # "none"
           THEN Raise(res.error) /\ UNCHANGED idx
           ELSE idx' = idx + 1 /\ UNCHANGED <<insts, pc>>
  /\ UNCHANGED <<file_path, df, tbl>>

\* the loop is exhausted: the load routine returns its dict and __init__
\* binds it to the result attribute
Return ==
  /\ pc = "loop"
  /\ idx > Len(df.rows)
  /\ insts' = [insts EXCEPT ![Len(insts)].state = "loaded",
                             ![Len(insts)].attr = tbl]
  /\ pc' = "idle"
  /\ UNCHANGED <<file_path, df, idx, tbl, heap>>

\* one loader, any file
Next ==
  \/ \E kind \in Kinds, p \in Paths : Construct(kind, p, 1)
  \/ LoadBegin
  \/ read_csv(MaxRows, FALSE)
  \/ read_excel(MaxRows, FALSE)
  \/ LoopRow
  \/ Return

Spec == Init /\ [][Next]_vars

\* the files the caller of SpecIso passes
IsoPaths == {[stem |-> "input", suffix |-> <<".", "C", "S", "V">>],
             [stem |-> "input", suffix |-> Xlsx],
             [stem |-> "missing", suffix |-> Xlsx]}

\* a caller that constructs several loaders one after the other, on small files
NextIso ==
  \/ \E kind \in Kinds, p \in IsoPaths : Construct(kind, p, MaxInst)
  \/ LoadBegin
  \/ read_csv(MaxRowsIso, TRUE)
  \/ read_excel(MaxRowsIso, TRUE)
  \/ LoopRow
  \/ Return

SpecIso == Init /\ [][NextIso]_vars

-----------------------------------------------------------------------------
(* Properties *)

\* the last construction has ended with its result attribute bound
Loaded(kind) == insts # <<>> /\ Cur.state = "loaded" /\ Cur.kind = kind

\* the last construction has ended, one way or the other
Ended == insts # <<>> /\ pc = "idle"

\* the parsed frame carries every column the loader reads
Carries(kind) == Required(kind) \subseteq df.cols

\* i is the last (first) row of rows with its key columns
IsLast(rows, i, keys) ==
  \A j \in DOMAIN rows : j > i => \E c \in keys : rows[j][c] # rows[i][c]

IsFirst(rows, i, keys) ==
  \A j \in DOMAIN rows : j < i => \E c \in keys : rows[j][c] # rows[i][c]

\* C1: after a DemandLoader is constructed from rows that carry product_id,
\* week_id and demand, demand_data has an entry [p][w] exactly when some row
\* has that (product_id, week_id), and the entry is the demand of the last
\* such row in file order.
C1_DemandLastWriteWins ==
  (Loaded("Demand") /\ Carries("Demand")) =>
    LET T == View(heap, Cur.attr)
        rows == df.rows
    IN /\ DOMAIN T = {rows[i]["product_id"] : i \in DOMAIN rows}
       /\ \A p \in DOMAIN T :
            DOMAIN T[p] = {rows[i]["week_id"] :
                             i \in {j \in DOMAIN rows : rows[j]["product_id"] = p}}
       /\ \A i \in DOMAIN rows :
            IsLast(rows, i, {"product_id", "week_id"}) =>
              T[rows[i]["product_id"]][rows[i]["week_id"]] = rows[i]["demand"]

\* a demand file in which a later row repeats a (product, week) pair with
\* another demand, and a row of another product stands between the two
C1_Witness ==
  /\ Loaded("Demand")
  /\ Len(df.rows) = 3
  /\ df.rows[1]["product_id"] = df.rows[3]["product_id"]
  /\ df.rows[1]["week_id"] = df.rows[3]["week_id"]
  /\ df.rows[1]["demand"] # df.rows[3]["demand"]
  /\ df.rows[2]["product_id"] # df.rows[1]["product_id"]

\* C2: after a TranstimeLoader is constructed from rows that carry
\* machine_Id, from, to and trans_time_days, transtime_data[m][(f, t)] exists
\* exactly when some row has that machine and ordered pair, and it is the
\* trans_time_days of the first such row: later rows with the same key, and
\* rows of another machine or another ordered pair, do not change it.
C2_TranstimeFirstWriteWins ==
  (Loaded("Transtime") /\ Carries("Transtime")) =>
    LET T == View(heap, Cur.attr)
        rows == df.rows
    IN /\ DOMAIN T = {rows[i]["machine_Id"] : i \in DOMAIN rows}
       /\ \A m \in DOMAIN T :
            DOMAIN T[m] = {<<rows[i]["from"], rows[i]["to"]>> :
                             i \in {j \in DOMAIN rows : rows[j]["machine_Id"] = m}}
       /\ \A i \in DOMAIN rows :
            IsFirst(rows, i, {"machine_Id", "from", "to"}) =>
              T[rows[i]["machine_Id"]][<<rows[i]["from"], rows[i]["to"]>>]
                = rows[i]["trans_time_days"]

\* a transition file in which a later row repeats (machine, from, to) with
\* another time, after a row with the reversed pair on the same machine
C2_Witness ==
  /\ Loaded("Transtime")
  /\ Len(df.rows) = 3
  /\ df.rows[1]["machine_Id"] = df.rows[3]["machine_Id"]
  /\ df.rows[1]["from"] = df.rows[3]["from"]
  /\ df.rows[1]["to"] = df.rows[3]["to"]
  /\ df.rows[1]["trans_time_days"] # df.rows[3]["trans_time_days"]
  /\ df.rows[2]["machine_Id"] = df.rows[1]["machine_Id"]
  /\ df.rows[2]["from"] = df.rows[1]["to"]
  /\ df.rows[2]["to"] = df.rows[1]["from"]

\* rows in the order given by a permutation of their indices
Permuted(rows, s) == [i \in DOMAIN rows |-> rows[s[i]]]

\* C3: after a DowntimeLoader is constructed from rows that carry machine_Id
\* and week_id, downtime_data has a key w exactly when some row has week_id
\* w, downtime_data[w] is the set of the machine_Id values of those rows,
\* and loading any permutation of the rows, or the rows with one of them
\* repeated, gives the same table.
C3_DowntimeSetSemantics ==
  (Loaded("Downtime") /\ Carries("Downtime")) =>
    LET T == View(heap, Cur.attr)
        rows == df.rows
    IN /\ DOMAIN T = {rows[i]["week_id"] : i \in DOMAIN rows}
       /\ \A w \in DOMAIN T :
            T[w] = {rows[i]["machine_Id"] :
                      i \in {j \in DOMAIN rows : rows[j]["week_id"] = w}}
       /\ \A s \in Permutations(DOMAIN rows) :
            Load("Downtime", Permuted(rows, s)) = T
       /\ \A i \in DOMAIN rows : Load("Downtime", Append(rows, rows[i])) = T

\* a downtime file with two machines in one week, one of them listed twice
C3_Witness ==
  /\ Loaded("Downtime")
  /\ Len(df.rows) = 3
  /\ df.rows[1] = df.rows[3]
  /\ df.rows[2]["week_id"] = df.rows[1]["week_id"]
  /\ df.rows[2]["machine_Id"] # df.rows[1]["machine_Id"]

\* C4: after a CapacityLoader is constructed from rows that carry
\* machine_id, product_id and week_cap, capacity_data has an entry [m][p]
\* exactly when some row has that (machine_id, product_id), and the entry is
\* the week_cap of the last such row in file order.
C4_CapacityLastWriteWins ==
  (Loaded("Capacity") /\ Carries("Capacity")) =>
    LET T == View(heap, Cur.attr)
        rows == df.rows
    IN /\ DOMAIN T = {rows[i]["machine_id"] : i \in DOMAIN rows}
       /\ \A m \in DOMAIN T :
            DOMAIN T[m] = {rows[i]["product_id"] :
                             i \in {j \in DOMAIN rows : rows[j]["machine_id"] = m}}
       /\ \A i \in DOMAIN rows :
            IsLast(rows, i, {"machine_id", "product_id"}) =>
              T[rows[i]["machine_id"]][rows[i]["product_id"]] = rows[i]["week_cap"]

\* a capacity file in which a later row repeats a (machine, product) pair
\* with another capacity, and a row of another product stands between
C4_Witness ==
  /\ Loaded("Capacity")
  /\ Len(df.rows) = 3
  /\ df.rows[1]["machine_id"] = df.rows[3]["machine_id"]
  /\ df.rows[1]["product_id"] = df.rows[3]["product_id"]
  /\ df.rows[1]["week_cap"] # df.rows[3]["week_cap"]
  /\ df.rows[2]["machine_id"] = df.rows[1]["machine_id"]
  /\ df.rows[2]["product_id"] # df.rows[1]["product_id"]

\* C5: constructing any of the four loaders with a path that does not exist
\* fails with ValidationError, the error of the existence check of
\* validate_file_path.
C5_MissingPathValidationError ==
  (Ended /\ ~exists(file_path)) =>
    (Cur.state = "failed" /\ Cur.error = "ValidationError")

\* the suffix, compared case-insensitively, is neither .csv nor .xlsx
Unsupported(p) == lower(p.suffix) \notin {Csv, Xlsx}

\* C6: constructing a loader with an existing path of an unsupported suffix
\* fails, with ValidationError for the demand and capacity loaders and with
\* FormatError for the transition and downtime loaders, and the path is
\* never handed to read_csv or read_excel.
C6_UnsupportedSuffixRejected ==
  (insts # <<>> /\ exists(file_path) /\ Unsupported(file_path)) =>
    /\ pc \notin {"read_csv", "read_excel", "loop"}
    /\ pc = "idle" =>
         /\ Cur.state = "failed"
         /\ Cur.error = IF Cur.kind \in {"Demand", "Capacity"}
                        THEN "ValidationError" ELSE "FormatError"

\* C7: a parser is only ever called on a path that validate_file_path has
\* accepted (it exists and its suffix is supported).
C7_ValidatedBeforeParsed ==
  pc \in {"read_csv", "read_excel"} => validate_file_path(file_path) = "ok"

\* C8: a construction ends either loaded, with the result attribute bound to
\* the table folded from all rows of the file, or failed, with an error and
\* the result attribute never bound; while a construction is in progress or
\* after it has failed no result attribute exists, so no attribute ever
\* holds a table folded from a proper prefix of the rows, and a failed
\* construction takes no further step.
C8_AllOrNothing ==
  \A i \in DOMAIN insts :
    /\ insts[i].state \in {"constructing", "loaded", "failed"}
    /\ insts[i].state = "constructing" => (i = Len(insts) /\ pc # "idle")
    /\ (i = Len(insts) /\ pc # "idle") => insts[i].state = "constructing"
    /\ insts[i].state = "loaded" <=> insts[i].attr # 0
    /\ insts[i].state = "failed" <=> insts[i].error # "none"
    /\ (i = Len(insts) /\ insts[i].state = "loaded") =>
         /\ idx = Len(df.rows) + 1
         /\ View(heap, insts[i].attr) = Load(insts[i].kind, df.rows)

\* a construction that is past the first of three rows, its table not empty
\* and its result attribute not bound
C8_Witness ==
  /\ insts # <<>>
  /\ pc = "loop"
  /\ Len(df.rows) = 3
  /\ idx = 2
  /\ DOMAIN heap[tbl].val # {}
  /\ Cur.attr = 0

\* a frame has been parsed for the last construction
Parsed == insts # <<>> /\ idx >= 1

\* C9 as stated: whenever the parsed frame lacks a column the loader reads,
\* construction fails with KeyError.
C9_MissingColumnAlwaysFails ==
  (Ended /\ Parsed /\ ~Carries(Cur.kind)) =>
    (Cur.state = "failed" /\ Cur.error = "KeyError")

\* C9, amended: when the parsed frame lacks a column the loader reads and has
\* at least one row, construction fails with KeyError at the first row with
\* nothing folded into the table; when it has no row, the loop body never
\* runs and construction succeeds with an empty table. The parser returns
\* such frames: it verifies no column.
C9_MissingColumnFailsOnFirstRow ==
  (Ended /\ Parsed /\ ~Carries(Cur.kind)) =>
    IF df.rows = <<>>
    THEN Cur.state = "loaded" /\ DOMAIN heap[Cur.attr].val = {}
    ELSE /\ Cur.state = "failed"
         /\ Cur.error = "KeyError"
         /\ idx = 1
         /\ DOMAIN heap[tbl].val = {}

\* a capacity file of two rows whose header lacks only the last column read
C9_Witness ==
  /\ Ended
  /\ Cur.kind = "Capacity"
  /\ df.cols = {"machine_id", "product_id"}
  /\ Len(df.rows) = 2
  /\ Cur.error = "KeyError"

\* no object is reached from two result attributes, nor from a result
\* attribute and the table of the construction in progress
NoSharing ==
  /\ \A i, j \in DOMAIN insts :
       (i < j /\ insts[i].attr # 0 /\ insts[j].attr # 0) =>
         Reach(heap, insts[i].attr) \cap Reach(heap, insts[j].attr) = {}
  /\ (pc # "idle" /\ tbl # 0) => Reach(heap, tbl) \cap Live = {}

\* a step leaves every loaded instance and every object of its table as
\* they are, and binds a result attribute only at the return of the
\* instance's own construction
LoadedUntouched ==
  \A i \in DOMAIN insts :
    /\ insts[i].state = "loaded" =>
         /\ insts'[i] = insts[i]
         /\ \A r \in Reach(heap, insts[i].attr) : heap'[r] = heap[r]
         /\ View(heap', insts'[i].attr) = View(heap, insts[i].attr)
    /\ insts'[i].attr # insts[i].attr =>
         (i = Len(insts) /\ pc = "loop" /\ insts[i].attr = 0 /\ insts'[i].attr = tbl)

\* C10: each instance binds its table once, at the end of its own
\* construction; from then on the table and its inner dicts or sets are
\* left unchanged by every later step, the construction of other loaders of
\* the same or another kind included; no two instances share an object.
C10_Isolation == []NoSharing /\ [][LoadedUntouched]_vars

\* a second loader of the same kind is past the first row of its file while
\* the first one holds a table that is not empty
C10_Witness ==
  /\ Len(insts) = 2
  /\ insts[1].kind = insts[2].kind
  /\ insts[1].attr # 0
  /\ DOMAIN heap[insts[1].attr].val # {}
  /\ pc = "loop"
  /\ idx = 2
  /\ View(heap, tbl) # View(heap, insts[1].attr)

====
